---- MODULE Spec2Model ----
(***************************************************************************)
(* arweave-dumper: the chunk reconstruction stream of src/arweave.rs and   *)
(* the ANS-104 bundle decoder of src/bundle.rs (with the tag codec of      *)
(* src/avro.rs), as state machines.                                        *)
(*                                                                         *)
(* SpecChunk  : Client::transaction_data_chunk_stream pulled by a consumer *)
(* SpecBundle : ans104_bundle_data_item_stream pulled by a consumer        *)
(* SpecPipe   : the item stream reading the chunk stream (src/bin/main.rs) *)
(* SpecWriter : async_json::ArrayWriter driven by a caller                 *)
(***************************************************************************)
EXTENDS Integers, Sequences, FiniteSets, TLC

VARIABLES
    build,          \* "debug" | "release": the cargo profile of the binary
    \* ---- chunk reconstruction stream (src/arweave.rs) ----
    txSize,         \* TransactionOffset.size answered by the offset lookup
    txOffset,       \* TransactionOffset.offset (the end offset) answered
    layout,         \* lengths of the chunks the network stores for the transaction
    stored,         \* the bytes the network stores for the transaction
    chunk_offset,   \* the local `chunk_offset` of the generator
    cpc,            \* position of the generator
    cerr,           \* error the stream yielded, "none" before
    cout,           \* byte buffers yielded so far, in order
    creqs,          \* offsets requested from chunk/{offset}, in order
    cresps,         \* the collaborator's answers, one per request
    \* ---- bundle item stream (src/bundle.rs) ----
    bundle,         \* description the input bytes were encoded from
    src,            \* the bytes the underlying reader supplies
    srcErr,         \* TRUE: the reader fails after `src`; FALSE: it reports EOF
    pos,            \* bytes consumed from the underlying reader
    total_items,    \* local `total_items`
    table,          \* local `data_items_table`
    idx,            \* rows of the table already handed to read_data_item
    out,            \* items yielded so far, in order
    bpc,            \* position of the generator
    berr,           \* error the stream yielded, "none" before
    reads,          \* history: one record for each call of read_data_item
    \* ---- JSON array writer (src/async_json.rs) ----
    buffer,         \* ArrayWriter.buffer
    following_item, \* ArrayWriter.following_item
    writer,         \* the bytes the underlying writer has received
    witems,         \* history: the items of the successful write_item calls
    wpc             \* position of the caller

chunkVars == <<txSize, txOffset, layout, stored, chunk_offset, cpc, cerr, cout, creqs, cresps>>
bundleVars == <<bundle, src, srcErr, pos, total_items, table, idx, out, bpc, berr, reads>>
writerVars == <<buffer, following_item, writer, witems, wpc>>
vars == <<build, chunkVars, bundleVars, writerVars>>

Builds == {"debug", "release"}

(***************************************************************************)
(* Bounds of the model.                                                    *)
(***************************************************************************)
MaxSize == 3        \* largest transaction size of the chunk stream
MaxOffset == 4      \* largest end offset of the chunk stream
MaxFetches == 4     \* chunk requests followed in one run
MaxItems == 2       \* most rows of a bundle
MaxTags == 2        \* most tags of an item
MaxPayload == 2     \* longest payload of an item
PipeChunk == 69     \* length of the chunks of the pipeline's transaction
MaxWrites == 3      \* most items written to a JSON array

(***************************************************************************)
(* Sequences of bytes.                                                     *)
(***************************************************************************)
RECURSIVE Concat(_)
Concat(ss) == IF ss = <<>> THEN <<>> ELSE Head(ss) \o Concat(Tail(ss))

\* F(v), with v computed once
Let(v, F(_)) == CHOOSE r \in {F(x) : x \in {v}} : TRUE

RECURSIVE SumSeq(_)
SumSeq(s) == IF s = <<>> THEN 0 ELSE Head(s) + SumSeq(Tail(s))

(***************************************************************************)
(* usize arithmetic.  A usize x is represented by x when x < 2^63 and by   *)
(* x - 2^64 otherwise, so that values that wrapped below zero stay small;  *)
(* UsizeLt is the unsigned order on the representatives.                   *)
(***************************************************************************)
UsizeLt(a, b) == IF (a < 0) = (b < 0) THEN a < b ELSE b < 0

\* a - b on usize: panics in a build with overflow checks, wraps otherwise
UsizeSub(a, b) == [panic |-> UsizeLt(a, b) /\ build = "debug", val |-> a - b]

\* a + b on usize, for a representative a and a small b >= 0
UsizeAdd(a, b) == [panic |-> a < 0 /\ a + b >= 0 /\ build = "debug", val |-> a + b]

(***************************************************************************)
(* The network, as the chunk stream sees it.                               *)
(***************************************************************************)
\* the sequences of positive chunk lengths that sum to n
Layouts(n) ==
    {s \in UNION {[1..k -> 1..n] : k \in 0..n} : SumSeq(s) = n}

\* first byte of the transaction in the global byte space
TxStart == txOffset - txSize + 1

\* the transaction's content
Content == stored

\* the byte stored at global offset o (0 outside the transaction)
ByteAt(o) == IF o >= TxStart /\ o <= txOffset THEN stored[o - TxStart + 1] ELSE 0

\* global offset at which chunk k of the layout starts
ChunkStart(k) == TxStart + SumSeq(SubSeq(layout, 1, k - 1))

\* an answer of GET chunk/{offset}
\*   transport: the request failed; otherwise an HTTP status and a body that
\*   either deserializes into TransactionChunk with `len` bytes or does not
ChunkResponses ==
    [transport : {TRUE}, status : {0}, json : {FALSE}, len : {0}]
    \cup [transport : {FALSE}, status : {200, 202, 404}, json : {FALSE}, len : {0}]
    \cup [transport : {FALSE}, status : {200, 202}, json : {TRUE}, len : 0..MaxSize]

\* the answer is the chunk of the layout that starts at offset o
Faithful(o, r) ==
    /\ ~r.transport /\ r.status = 200 /\ r.json
    /\ \E k \in 1..Len(layout) : ChunkStart(k) = o /\ layout[k] = r.len

\* Client::fetch_chunk_data: send()?, error_for_status()?, json()?
fetch_chunk_data(o, r) ==
    IF r.transport THEN [ok |-> FALSE, err |-> "Transport", chunk |-> <<>>]
    ELSE IF r.status >= 400 THEN [ok |-> FALSE, err |-> "HttpStatus", chunk |-> <<>>]
    ELSE IF ~r.json THEN [ok |-> FALSE, err |-> "Json", chunk |-> <<>>]
    ELSE [ok |-> TRUE, err |-> "none", chunk |-> [i \in 1..r.len |-> ByteAt(o + i - 1)]]

(***************************************************************************)
(* Readers (tokio AsyncRead over a byte source).  A reader is the bytes    *)
(* `b` it can still supply and `fail`: whether it ends in a read failure   *)
(* (TRUE) or in end-of-input (FALSE).                                       *)
(***************************************************************************)
\* a single read into the still empty vector: no byte is taken
read_into_empty(b, fail) == [ok |-> TRUE, err |-> "none", val |-> <<>>, rest |-> b]

\* AsyncReadExt::read_to_end: every byte up to end-of-input, or the failure
read_to_end(b, fail) ==
    IF fail THEN [ok |-> FALSE, err |-> "Io", val |-> <<>>, rest |-> <<>>]
    ELSE [ok |-> TRUE, err |-> "none", val |-> b, rest |-> <<>>]

\* AsyncReadExt::read_exact
ReadExact(b, fail, n) ==
    IF Len(b) >= n
    THEN [ok |-> TRUE, err |-> "none", val |-> SubSeq(b, 1, n),
          rest |-> SubSeq(b, n + 1, Len(b))]
    ELSE [ok |-> FALSE, err |-> IF fail THEN "Io" ELSE "UnexpectedEof",
          val |-> <<>>, rest |-> <<>>]

\* values from Saturated on are not told apart: they are only compared with
\* lengths of the model's inputs, which are far smaller
Saturated == 256 * 256 * 256 * 64

\* little-endian value of a byte sequence (read_u16_le, read_u64_le)
RECURSIVE LittleEndian(_)
LittleEndian(b) ==
    IF b = <<>> \/ \A i \in 1..Len(b) : b[i] = 0 THEN 0
    ELSE Let(LittleEndian(Tail(b)), LAMBDA high :
         IF high >= Saturated \div 256 THEN Saturated ELSE Head(b) + 256 * high)

\* read_u128_le: the value is lo + 2^64 * hi
U128OfBytes(b) ==
    [lo |-> LittleEndian(SubSeq(b, 1, 8)), hi |-> LittleEndian(SubSeq(b, 9, 16))]

U128IsZero(x) == x.lo = 0 /\ x.hi = 0

\* n < x for a small n
U128Above(x, n) == x.hi > 0 \/ x.lo > n

\* read_u256_as_u128
read_u256_as_u128(b, fail) ==
    LET num == ReadExact(b, fail, 16)
        upper_half == ReadExact(num.rest, fail, 16)
    IN  IF ~num.ok THEN [kind |-> "err", err |-> num.err, val |-> [lo |-> 0, hi |-> 0], rest |-> <<>>]
        ELSE IF ~upper_half.ok
        THEN [kind |-> "err", err |-> upper_half.err, val |-> [lo |-> 0, hi |-> 0], rest |-> <<>>]
        ELSE IF build = "debug" /\ ~U128IsZero(U128OfBytes(upper_half.val))
        THEN [kind |-> "panic", err |-> "none", val |-> [lo |-> 0, hi |-> 0],
              rest |-> upper_half.rest]
        ELSE [kind |-> "ok", err |-> "none", val |-> U128OfBytes(num.val),
              rest |-> upper_half.rest]

\* read_buffer_as_base64
read_buffer_as_base64(b, fail, size) == ReadExact(b, fail, size)

\* read_optional_field_as_base64; None is <<>>, Some(x) is <<x>>
read_optional_field_as_base64(b, fail, size) ==
    LET is_present == ReadExact(b, fail, 1) IN
    IF ~is_present.ok
    THEN [kind |-> "err", err |-> is_present.err, val |-> <<>>, rest |-> <<>>]
    ELSE IF ~(is_present.val[1] < 2)
    THEN [kind |-> "panic", err |-> "none", val |-> <<>>, rest |-> is_present.rest]
    ELSE IF is_present.val[1] = 1
    THEN LET f == read_buffer_as_base64(is_present.rest, fail, size) IN
         IF f.ok THEN [kind |-> "ok", err |-> "none", val |-> <<f.val>>, rest |-> f.rest]
         ELSE [kind |-> "err", err |-> f.err, val |-> <<>>, rest |-> <<>>]
    ELSE [kind |-> "ok", err |-> "none", val |-> <<>>, rest |-> is_present.rest]

(***************************************************************************)
(* The tag codec: avro::parse_tag_list, an Avro array of records of two    *)
(* strings.  Strings are checked as UTF-8; the model's inputs hold ASCII   *)
(* bytes and the byte 255, which no UTF-8 text contains.                   *)
(***************************************************************************)
\* a variable-length unsigned integer, 7 bits a byte, low group first
RECURSIVE Varint(_)
Varint(b) ==
    IF b = <<>> THEN [ok |-> FALSE, val |-> 0, rest |-> <<>>]
    ELSE IF Head(b) < 128 THEN [ok |-> TRUE, val |-> Head(b), rest |-> Tail(b)]
    ELSE Let(Varint(Tail(b)), LAMBDA r :
         [ok |-> r.ok, val |-> (Head(b) - 128) + 128 * r.val, rest |-> r.rest])

\* an Avro long: a zigzag-coded varint
AvroLong(b) ==
    Let(Varint(b), LAMBDA r :
    [ok |-> r.ok, rest |-> r.rest,
     val |-> IF r.val % 2 = 0 THEN r.val \div 2 ELSE -((r.val + 1) \div 2)])

Utf8(s) == \A i \in 1..Len(s) : s[i] < 128

\* an Avro string: a long length, then that many bytes of UTF-8
AvroString(b) ==
    Let(AvroLong(b), LAMBDA n :
    IF ~n.ok \/ n.val < 0 \/ Len(n.rest) < n.val
    THEN [ok |-> FALSE, val |-> <<>>, rest |-> <<>>]
    ELSE Let(SubSeq(n.rest, 1, n.val), LAMBDA s :
         [ok |-> Utf8(s), val |-> s, rest |-> SubSeq(n.rest, n.val + 1, Len(n.rest))]))

\* n records { name: string, value: string }
RECURSIVE AvroTags(_, _)
AvroTags(b, n) ==
    IF n = 0 THEN [ok |-> TRUE, val |-> <<>>, rest |-> b] ELSE
    Let(AvroString(b), LAMBDA name :
    IF ~name.ok THEN [ok |-> FALSE, val |-> <<>>, rest |-> <<>>] ELSE
    Let(AvroString(name.rest), LAMBDA value :
    IF ~value.ok THEN [ok |-> FALSE, val |-> <<>>, rest |-> <<>>] ELSE
    Let(AvroTags(value.rest, n - 1), LAMBDA more :
    IF ~more.ok THEN [ok |-> FALSE, val |-> <<>>, rest |-> <<>>]
    ELSE [ok |-> TRUE, rest |-> more.rest,
          val |-> <<[name |-> name.val, value |-> value.val]>> \o more.val])))

\* the blocks of an Avro array: a count and the items, until a count of 0;
\* a negative count is followed by the block's size in bytes
RECURSIVE AvroBlocks(_)
AvroBlocks(b) ==
    Let(AvroLong(b), LAMBDA count :
    IF ~count.ok THEN [ok |-> FALSE, val |-> <<>>]
    ELSE IF count.val = 0 THEN [ok |-> TRUE, val |-> <<>>] ELSE
    Let(IF count.val < 0 THEN AvroLong(count.rest)
        ELSE [ok |-> TRUE, rest |-> count.rest, val |-> 0], LAMBDA size :
    IF ~size.ok THEN [ok |-> FALSE, val |-> <<>>] ELSE
    Let(AvroTags(size.rest, IF count.val < 0 THEN -count.val ELSE count.val),
        LAMBDA items :
    IF ~items.ok THEN [ok |-> FALSE, val |-> <<>>] ELSE
    Let(AvroBlocks(items.rest), LAMBDA more :
    IF ~more.ok THEN [ok |-> FALSE, val |-> <<>>]
    ELSE [ok |-> TRUE, val |-> items.val \o more.val]))))

\* avro::parse_tag_list
parse_tag_list(tag_data) == AvroBlocks(tag_data)

(***************************************************************************)
(* bundle::read_data_item                                                  *)
(***************************************************************************)
\* the table with the two lengths of the ed25519 row swapped
SignatureTableSwapped(signature_type) ==
    CASE signature_type = 1 ->
           [known |-> TRUE, name |-> "arweave", sig_length |-> 512, pub_key_length |-> 512]
      [] signature_type = 2 ->
           [known |-> TRUE, name |-> "ed25519", sig_length |-> 32, pub_key_length |-> 64]
      [] signature_type = 3 ->
           [known |-> TRUE, name |-> "ethereum", sig_length |-> 65, pub_key_length |-> 65]
      [] signature_type = 4 ->
           [known |-> TRUE, name |-> "solana", sig_length |-> 64, pub_key_length |-> 32]
      [] OTHER ->
           [known |-> FALSE, name |-> "", sig_length |-> 0, pub_key_length |-> 0]

\* match signature_type { 1 => .., 2 => .., 3 => .., 4 => .., v => Err }
SignatureTable(signature_type) ==
    CASE signature_type = 1 ->
           [known |-> TRUE, name |-> "arweave", sig_length |-> 512, pub_key_length |-> 512]
      [] signature_type = 2 ->
           [known |-> TRUE, name |-> "ed25519", sig_length |-> 64, pub_key_length |-> 32]
      [] signature_type = 3 ->
           [known |-> TRUE, name |-> "ethereum", sig_length |-> 65, pub_key_length |-> 65]
      [] signature_type = 4 ->
           [known |-> TRUE, name |-> "solana", sig_length |-> 64, pub_key_length |-> 32]
      [] OTHER ->
           [known |-> FALSE, name |-> "", sig_length |-> 0, pub_key_length |-> 0]

\* sha256, as an injective function of its argument
Sha256(x) == <<"sha256", x>>

NoItem ==
    [signature_name |-> "", signature |-> <<>>, bundle_id |-> <<>>,
     owner_public_key |-> <<>>, target |-> <<>>, anchor |-> <<>>, tags |-> <<>>,
     data |-> <<>>]

ItemFailed(kind, err, rest) == [kind |-> kind, err |-> err, item |-> NoItem, rest |-> rest]

\* read_data_item on a reader that supplies b; the result is Ok(item), Err(err)
\* or a panic, with the bytes the reader has left
read_data_item(b, fail) ==
    Let(ReadExact(b, fail, 2), LAMBDA signature_type :
    IF ~signature_type.ok THEN ItemFailed("err", signature_type.err, <<>>) ELSE
    Let(SignatureTable(LittleEndian(signature_type.val)), LAMBDA row :
    IF ~row.known
    THEN ItemFailed("err", "UnsupportedSignatureType", signature_type.rest) ELSE
    Let(read_buffer_as_base64(signature_type.rest, fail, row.sig_length), LAMBDA signature :
    IF ~signature.ok THEN ItemFailed("err", signature.err, <<>>) ELSE
    Let(read_buffer_as_base64(signature.rest, fail, row.pub_key_length),
        LAMBDA owner_public_key :
    IF ~owner_public_key.ok THEN ItemFailed("err", owner_public_key.err, <<>>) ELSE
    Let(read_optional_field_as_base64(owner_public_key.rest, fail, 32), LAMBDA target :
    IF target.kind # "ok" THEN ItemFailed(target.kind, target.err, target.rest) ELSE
    Let(read_optional_field_as_base64(target.rest, fail, 32), LAMBDA anchor :
    IF anchor.kind # "ok" THEN ItemFailed(anchor.kind, anchor.err, anchor.rest) ELSE
    Let(ReadExact(anchor.rest, fail, 8), LAMBDA tag_count :
    IF ~tag_count.ok THEN ItemFailed("err", tag_count.err, <<>>) ELSE
    Let(ReadExact(tag_count.rest, fail, 8), LAMBDA tags_size :
    IF ~tags_size.ok THEN ItemFailed("err", tags_size.err, <<>>) ELSE
    Let(LittleEndian(tags_size.val), LAMBDA size :
    \* if tags_size > 0 { read_exact(tag_data) } else { vec![] }
    Let(IF size > 0 THEN ReadExact(tags_size.rest, fail, size)
        ELSE [ok |-> TRUE, err |-> "none", val |-> <<>>, rest |-> tags_size.rest],
        LAMBDA tag_data :
    IF ~tag_data.ok THEN ItemFailed("err", tag_data.err, <<>>) ELSE
    Let(IF size > 0 THEN parse_tag_list(tag_data.val) ELSE [ok |-> TRUE, val |-> <<>>],
        LAMBDA tags :
    IF ~tags.ok THEN ItemFailed("err", "Avro", tag_data.rest)
    \* assert_eq!(tag_count as usize, tags.len())
    ELSE IF LittleEndian(tag_count.val) # Len(tags.val)
    THEN ItemFailed("panic", "none", tag_data.rest)
    ELSE
    Let(read_to_end(tag_data.rest, fail), LAMBDA data :
    IF ~data.ok THEN ItemFailed("err", data.err, <<>>)
    ELSE [kind |-> "ok", err |-> "none", rest |-> data.rest,
          item |-> [signature_name |-> row.name,
                    signature |-> signature.val,
                    bundle_id |-> Sha256(signature.val),
                    owner_public_key |-> owner_public_key.val,
                    target |-> target.val,
                    anchor |-> anchor.val,
                    tags |-> tags.val,
                    data |-> data.val]]))))))))))))

(***************************************************************************)
(* bundle::ans104_bundle_data_item_stream                                  *)
(***************************************************************************)
\* what the underlying reader can still supply
Remaining == SubSeq(src, pos + 1, Len(src))

\* (&mut reader).take(data_item_size as u64): the limit of the bounded reader
TakeLimit(data_item_size) == data_item_size.lo

\* the bytes the bounded reader of a row supplies
TakeView(limit) ==
    SubSeq(src, pos + 1, pos + (IF limit < Len(src) - pos THEN limit ELSE Len(src) - pos))

\* the bounded reader reporting end-of-input where the source failed
TakeNeverFails(limit) == FALSE

\* the bounded reader ends in a failure only when the source fails before the limit
TakeFails(limit) == srcErr /\ limit > Len(src) - pos

\* the loop over the rows stopping one row early
RowsLeftOneShort == U128Above(total_items, Len(table) + 1)

\* for _ in 0..total_items
RowsLeft == U128Above(total_items, Len(table))

\* read_u256_as_u128(&mut reader).await.context("total DataItems read")?
ReadTotalItems ==
    /\ bpc = "start"
    /\ LET r == read_u256_as_u128(Remaining, srcErr) IN
        /\ pos' = Len(src) - Len(r.rest)
        /\ IF r.kind = "ok"
           THEN /\ total_items' = r.val /\ bpc' = "table" /\ UNCHANGED berr
           ELSE IF r.kind = "err"
           THEN /\ bpc' = "error" /\ berr' = r.err /\ UNCHANGED total_items
           ELSE /\ bpc' = "panic" /\ UNCHANGED <<berr, total_items>>
    /\ UNCHANGED <<build, writerVars, chunkVars, bundle, src, srcErr, table, idx, out,
                   reads>>

\* one turn of the loop of read_data_item_and_entry_id_table
ReadTableEntry ==
    /\ bpc = "table"
    /\ RowsLeft
    /\ LET size == read_u256_as_u128(Remaining, srcErr)
           entry_id == read_buffer_as_base64(size.rest, srcErr, 32)
       IN  IF size.kind = "panic"
           THEN /\ bpc' = "panic" /\ pos' = Len(src) - Len(size.rest)
                /\ UNCHANGED <<berr, table>>
           ELSE IF size.kind = "err" \/ ~entry_id.ok
           THEN /\ bpc' = "error" /\ pos' = Len(src)
                /\ berr' = (IF size.kind = "err" THEN size.err ELSE entry_id.err)
                /\ UNCHANGED table
           ELSE /\ table' = Append(table, [size |-> size.val, entry_id |-> entry_id.val])
                /\ pos' = Len(src) - Len(entry_id.rest)
                /\ UNCHANGED <<bpc, berr>>
    /\ UNCHANGED <<build, writerVars, chunkVars, bundle, src, srcErr, total_items, idx,
                   out, reads>>

\* Ok(res): the table is complete
TableRead ==
    /\ bpc = "table"
    /\ ~RowsLeft
    /\ bpc' = "items"
    /\ UNCHANGED <<build, writerVars, chunkVars, bundle, src, srcErr, pos, total_items,
                   table, idx, out, berr, reads>>

\* a failed row skipped, the loop going on with the next row
AfterItemSkipping(res) ==
    CASE res.kind = "ok" ->
           [bpc |-> "items", berr |-> "none", idx |-> idx + 1, out |-> Append(out, res.item)]
      [] res.kind = "err" ->
           [bpc |-> "items", berr |-> "none", idx |-> idx + 1, out |-> out]
      [] OTHER ->
           [bpc |-> "panic", berr |-> "none", idx |-> idx, out |-> out]

\* read_data_item(..).await.context(..)? and `yield data_item`
AfterItem(res) ==
    CASE res.kind = "ok" ->
           [bpc |-> "items", berr |-> "none", idx |-> idx + 1, out |-> Append(out, res.item)]
      [] res.kind = "err" ->
           [bpc |-> "error", berr |-> res.err, idx |-> idx, out |-> out]
      [] OTHER ->
           [bpc |-> "panic", berr |-> "none", idx |-> idx, out |-> out]

\* one turn of the loop over the table
ReadItem ==
    /\ bpc = "items"
    /\ idx < Len(table)
    /\ \E limit \in {TakeLimit(table[idx + 1].size)} :
       \E view \in {TakeView(limit)} :
       \E res \in {read_data_item(view, TakeFails(limit))} :
       \E next \in {AfterItem(res)} :
         LET used == Len(view) - Len(res.rest) IN
           /\ pos' = pos + used
           /\ bpc' = next.bpc /\ berr' = next.berr /\ idx' = next.idx /\ out' = next.out
           /\ reads' = Append(reads, [row |-> idx + 1, start |-> pos, limit |-> limit,
                                      used |-> used, kind |-> res.kind, err |-> res.err])
    /\ UNCHANGED <<build, writerVars, chunkVars, bundle, src, srcErr, total_items, table>>

\* the table is exhausted: the generator returns
BundleStreamEnd ==
    /\ bpc = "items"
    /\ idx = Len(table)
    /\ bpc' = "done"
    /\ UNCHANGED <<build, writerVars, chunkVars, bundle, src, srcErr, pos, total_items,
                   table, idx, out, berr, reads>>

(***************************************************************************)
(* Client::transaction_data_chunk_stream                                   *)
(***************************************************************************)
\* the cursor starting one byte early, at offset - size
InitialCursorOneEarly(offset, size) ==
    LET d == UsizeSub(offset, size) IN [panic |-> d.panic, val |-> d.val]

\* let mut chunk_offset = tx_offset_data.offset - tx_offset_data.size + 1;
InitialCursor(offset, size) ==
    LET d == UsizeSub(offset, size)
        s == UsizeAdd(d.val, 1)
    IN  [panic |-> d.panic \/ s.panic, val |-> s.val]

\* the loop running until the cursor meets the end offset
LoopCondNotEqual(cursor, offset) == cursor # offset

\* while chunk_offset < tx_offset_data.offset
LoopCond(cursor, offset) == UsizeLt(cursor, offset)

\* first poll: fetch_transaction_offset(id).await? and the cursor
FetchOffsetStep ==
    /\ cpc = "start"
    /\ \E okResp \in BOOLEAN :
        IF ~okResp
        THEN /\ cpc' = "error" /\ cerr' = "Offset"
             /\ UNCHANGED chunk_offset
        ELSE LET c == InitialCursor(txOffset, txSize) IN
             IF c.panic
             THEN /\ cpc' = "panic" /\ UNCHANGED <<cerr, chunk_offset>>
             ELSE /\ cpc' = "loop" /\ chunk_offset' = c.val /\ UNCHANGED cerr
    /\ UNCHANGED <<build, txSize, txOffset, layout, stored, cout, creqs, cresps>>

\* the stream polled on its own
FetchOffset == FetchOffsetStep /\ UNCHANGED <<bundleVars, writerVars>>

\* one turn of the loop: fetch, advance, yield; the collaborator answers with
\* one of `answers`
FetchChunkStep(answers) ==
    /\ cpc = "loop"
    /\ LoopCond(chunk_offset, txOffset)
    /\ \E r \in answers :
        LET res == fetch_chunk_data(chunk_offset, r) IN
        /\ creqs' = Append(creqs, chunk_offset)
        /\ cresps' = Append(cresps, r)
        /\ IF res.ok
           THEN /\ chunk_offset' = chunk_offset + Len(res.chunk)
                /\ cout' = Append(cout, res.chunk)
                /\ UNCHANGED <<cpc, cerr>>
           ELSE /\ cpc' = "error" /\ cerr' = res.err
                /\ UNCHANGED <<chunk_offset, cout>>
    /\ UNCHANGED <<build, txSize, txOffset, layout, stored>>

FetchChunk ==
    /\ Len(creqs) < MaxFetches
    /\ FetchChunkStep(ChunkResponses)
    /\ UNCHANGED <<bundleVars, writerVars>>

\* the loop condition is false: the generator returns
ChunkStreamEndStep ==
    /\ cpc = "loop"
    /\ ~LoopCond(chunk_offset, txOffset)
    /\ cpc' = "done"
    /\ UNCHANGED <<build, txSize, txOffset, layout, stored, chunk_offset, cerr, cout,
                   creqs, cresps>>

ChunkStreamEnd == ChunkStreamEndStep /\ UNCHANGED <<bundleVars, writerVars>>

(***************************************************************************)
(* Input bundles.  A bundle is described by its items and one fault of the *)
(* framing; Encode writes the description in the wire layout.  The lengths *)
(* used to write an item are the layout's, stated here on their own.       *)
(***************************************************************************)
U64Bytes(n) == <<n % 256, (n \div 256) % 256, 0, 0, 0, 0, 0, 0>>

U256Bytes(lo, hi, upper) == U64Bytes(lo) \o U64Bytes(hi) \o U64Bytes(upper) \o U64Bytes(0)

Fill(n, seed) == [i \in 1..n |-> (i + seed) % 256]

WireSigLen(v) == IF v = 1 THEN 512 ELSE IF v = 3 THEN 65 ELSE 64
WireKeyLen(v) == IF v = 1 THEN 512 ELSE IF v = 3 THEN 65 ELSE 32
WireName(v) ==
    IF v = 1 THEN "arweave" ELSE IF v = 2 THEN "ed25519"
    ELSE IF v = 3 THEN "ethereum" ELSE "solana"

TagName(k, form) == IF form = "badutf8" THEN <<255>> ELSE <<96 + k>>
TagValue(k) == <<64 + k>>

RECURSIVE WireTagRecords(_, _, _)
WireTagRecords(k, n, form) ==
    IF k > n THEN <<>>
    ELSE <<2>> \o TagName(k, form) \o <<2>> \o TagValue(k) \o WireTagRecords(k + 1, n, form)

WireTags(n, form) ==
    LET recs == WireTagRecords(1, n, form)
        whole == IF n = 0 THEN <<0>> ELSE <<2 * n>> \o recs \o <<0>>
    IN  CASE form = "empty" -> <<>>
          [] form = "negblock" -> <<2 * n - 1, 2 * Len(recs)>> \o recs \o <<0>>
          [] form = "truncated" -> SubSeq(whole, 1, Len(whole) - 1)
          [] OTHER -> whole

WireOptional(flag, seed) == <<flag>> \o (IF flag = 1 THEN Fill(32, seed) ELSE <<>>)

WireItem(d) ==
    LET blob == WireTags(d.tags, d.form) IN
    <<d.variant % 256, d.variant \div 256>>
    \o Fill(WireSigLen(d.variant), 1) \o Fill(WireKeyLen(d.variant), 2)
    \o WireOptional(d.target, 3) \o WireOptional(d.anchor, 4)
    \o U64Bytes(d.tag_count) \o U64Bytes(Len(blob)) \o blob
    \o Fill(d.payload, 5)

\* the item a well-formed description stands for
ItemOf(d) ==
    [signature_name |-> WireName(d.variant),
     signature |-> Fill(WireSigLen(d.variant), 1),
     bundle_id |-> Sha256(Fill(WireSigLen(d.variant), 1)),
     owner_public_key |-> Fill(WireKeyLen(d.variant), 2),
     target |-> IF d.target = 1 THEN <<Fill(32, 3)>> ELSE <<>>,
     anchor |-> IF d.anchor = 1 THEN <<Fill(32, 4)>> ELSE <<>>,
     tags |-> [k \in 1..d.tags |-> [name |-> TagName(k, d.form), value |-> TagValue(k)]],
     data |-> Fill(d.payload, 5)]

BaseItem ==
    [variant |-> 2, target |-> 0, anchor |-> 0, tag_count |-> 0, tags |-> 0,
     form |-> "empty", payload |-> 1]

Variants == {0, 1, 2, 3, 4, 5, 256, 513, 65535}

\* declared count, encoded tags and form of the blob
TagShapes ==
    [c : 0..MaxTags, n : 0..MaxTags, f : {"ok"}]
    \cup [c : 0..MaxTags, n : {0}, f : {"empty"}]
    \cup {[c |-> n, n |-> n, f |-> f] :
             n \in 1..MaxTags, f \in {"negblock", "truncated", "badutf8"}}

\* the items that vary one part of the base item
ItemDescs ==
    {[BaseItem EXCEPT !.variant = v] : v \in Variants}
    \cup {[BaseItem EXCEPT !.target = t, !.anchor = a] : t \in {0, 1, 2}, a \in {0, 1, 2}}
    \cup {[BaseItem EXCEPT !.tag_count = t.c, !.tags = t.n, !.form = t.f] : t \in TagShapes}
    \cup {[BaseItem EXCEPT !.payload = p] : p \in 0..MaxPayload}

\* items without a fault
PlainItems == {[BaseItem EXCEPT !.payload = p] : p \in {0, 1}}

ValidItem(d) ==
    /\ d.variant \in 1..4
    /\ d.target \in {0, 1} /\ d.anchor \in {0, 1}
    /\ d.tag_count = d.tags
    /\ d.form \in {"empty", "ok", "negblock"}

Faults ==
    {"none", "countHi", "countMore", "lenHi", "lenBig", "lenShort", "extra",
     "cutLast", "cutLastIo", "cutTable", "cutTableIo", "cutCount"}

ItemFaults == {"lenHi", "lenBig", "lenShort", "cutTable", "cutTableIo"}

PlainSeqs == UNION {[1..n -> PlainItems] : n \in 0..MaxItems}

\* plain items with one fault of the framing, or plain items but for one item
Bundles ==
    {b \in [items : PlainSeqs, fault : Faults] :
        b.fault \in ItemFaults => Len(b.items) >= 1}
    \cup UNION {{[items |-> [s EXCEPT ![i] = d], fault |-> "none"] :
                    i \in 1..Len(s), d \in ItemDescs} : s \in PlainSeqs}

WireRow(b, i) ==
    LET len == Len(WireItem(b.items[i])) IN
    U256Bytes(IF b.fault = "lenShort" /\ i = 1 THEN len - 1 ELSE len,
              IF b.fault = "lenBig" /\ i = 1 THEN 1 ELSE 0,
              IF b.fault = "lenHi" /\ i = 1 THEN 1 ELSE 0)
    \o Fill(32, 10 + i)

TableEnd(b) == 32 + 64 * Len(b.items)

Encode(b) ==
    LET n == Len(b.items)
        whole == U256Bytes(IF b.fault = "countMore" THEN n + 1 ELSE n, 0,
                           IF b.fault = "countHi" THEN 1 ELSE 0)
                 \o Concat([i \in 1..n |-> WireRow(b, i)])
                 \o Concat([i \in 1..n |-> WireItem(b.items[i])])
                 \o (IF b.fault = "extra" THEN <<9>>
                     ELSE IF b.fault = "trailer" THEN Fill(PipeChunk, 9) ELSE <<>>)
        keep == CASE b.fault \in {"cutLast", "cutLastIo"} -> Len(whole) - 1
                  [] b.fault \in {"cutTable", "cutTableIo"} -> TableEnd(b) - 1
                  [] b.fault = "cutCount" -> 31
                  [] OTHER -> Len(whole)
    IN  SubSeq(whole, 1, keep)

SourceFails(b) == b.fault \in {"cutLastIo", "cutTableIo"}

WellFormed(b) == b.fault = "none" /\ \A i \in 1..Len(b.items) : ValidItem(b.items[i])

IdleWriter ==
    /\ buffer = <<>> /\ following_item = FALSE /\ writer = <<>> /\ witems = <<>>
    /\ wpc = "idle"

IdleChunk ==
    /\ txSize = 0 /\ txOffset = 0 /\ layout = <<>> /\ stored = <<>> /\ chunk_offset = 0
    /\ cpc = "idle" /\ cerr = "none"
    /\ cout = <<>> /\ creqs = <<>> /\ cresps = <<>>

InitBundle ==
    /\ build \in Builds
    /\ bundle \in Bundles
    /\ src = Encode(bundle)
    /\ srcErr = SourceFails(bundle)
    /\ pos = 0
    /\ total_items = [lo |-> 0, hi |-> 0] /\ table = <<>> /\ idx = 0 /\ out = <<>>
    /\ bpc = "start" /\ berr = "none" /\ reads = <<>>
    /\ IdleChunk /\ IdleWriter

NextBundle == ReadTotalItems \/ ReadTableEntry \/ TableRead \/ ReadItem \/ BundleStreamEnd

SpecBundle == InitBundle /\ [][NextBundle]_vars

IdleBundle ==
    /\ bundle = <<>> /\ src = <<>> /\ srcErr = FALSE /\ pos = 0
    /\ total_items = [lo |-> 0, hi |-> 0] /\ table = <<>> /\ idx = 0 /\ out = <<>>
    /\ bpc = "idle" /\ berr = "none" /\ reads = <<>>

InitChunk ==
    /\ build \in Builds
    /\ txSize \in 0..MaxSize
    /\ txOffset \in 0..MaxOffset
    /\ layout \in Layouts(txSize)
    /\ stored = [i \in 1..txSize |-> i]
    /\ chunk_offset = 0
    /\ cpc = "start" /\ cerr = "none"
    /\ cout = <<>> /\ creqs = <<>> /\ cresps = <<>>
    /\ IdleBundle /\ IdleWriter

NextChunk == FetchOffset \/ FetchChunk \/ ChunkStreamEnd

SpecChunk == InitChunk /\ [][NextChunk]_vars

(***************************************************************************)
(* The pipeline of src/bin/main.rs: the item stream reads a StreamReader   *)
(* over the chunk stream.  `src` holds the bytes the StreamReader has      *)
(* received from the chunk stream, `srcErr` whether the chunk stream has   *)
(* yielded an error (which map_err turned into an io::Error).              *)
(***************************************************************************)
\* the StreamReader asking for the next buffer whatever the decoder reads
StarvedEager == bpc \in {"start", "table", "items"}

\* the read the decoder is at cannot be served from the bytes received so far:
\* the StreamReader polls the chunk stream for the next buffer
Starved ==
    CASE bpc = "start" -> read_u256_as_u128(Remaining, FALSE).kind = "err"
      [] bpc = "table" /\ RowsLeft ->
           \E size \in {read_u256_as_u128(Remaining, FALSE)} :
             \/ size.kind = "err"
             \/ size.kind = "ok" /\ ~read_buffer_as_base64(size.rest, FALSE, 32).ok
      [] bpc = "items" /\ idx < Len(table) ->
           \E limit \in {TakeLimit(table[idx + 1].size)} :
           \E view \in {TakeView(limit)} :
           \E res \in {read_data_item(view, FALSE)} :
             /\ Len(view) < limit
             /\ res.kind = "ok" \/ (res.kind = "err" /\ res.err = "UnexpectedEof")
      [] OTHER -> FALSE

\* the read the decoder is at completes: its bytes are there, or the chunk stream
\* has ended or failed
Ready == cpc \in {"done", "error"} \/ ~Starved

\* the answers of GET chunk/{offset}: a failure, or the stored chunk that starts there
PipeResponses ==
    [transport : {TRUE}, status : {0}, json : {FALSE}, len : {0}]
    \cup [transport : {FALSE}, status : {404, 202}, json : {FALSE}, len : {0}]
    \cup {[transport |-> FALSE, status |-> 200, json |-> TRUE, len |-> layout[k]] :
             k \in {j \in 1..Len(layout) : ChunkStart(j) = chunk_offset}}

\* StreamReader: a yielded buffer is appended to what the reader can supply, an
\* error of the stream becomes the reader's failure; the decoder does not move
Received ==
    /\ src' = (IF Len(cout') > Len(cout) THEN src \o cout'[Len(cout')] ELSE src)
    /\ srcErr' = (cpc' = "error")
    /\ UNCHANGED <<bundle, pos, total_items, table, idx, out, bpc, berr, reads,
                   writerVars>>

PipeFetchOffset == Starved /\ FetchOffsetStep /\ Received

PipeFetchChunk == Starved /\ FetchChunkStep(PipeResponses) /\ Received

PipeChunkStreamEnd == Starved /\ ChunkStreamEndStep /\ Received

PipeReadTotalItems == Ready /\ ReadTotalItems

PipeReadTableEntry == Ready /\ ReadTableEntry

PipeReadItem == Ready /\ ReadItem

\* chunks of c bytes, the last one shorter
UniformLayout(n, c) ==
    [k \in 1..((n + c - 1) \div c) |-> IF k * c <= n THEN c ELSE n - (k - 1) * c]

PipeItems == {[BaseItem EXCEPT !.payload = p] : p \in {1, MaxPayload}}

PipeBundles ==
    [items : UNION {[1..n -> PipeItems] : n \in 0..MaxItems},
     fault : {"none", "extra", "trailer", "cutLast"}]

InitPipe ==
    /\ build \in Builds
    /\ bundle \in PipeBundles
    /\ stored = Encode(bundle)
    /\ txSize = Len(stored)
    /\ txOffset \in {txSize - 1, txSize + 1}
    /\ layout \in {UniformLayout(txSize, c) : c \in {PipeChunk, 4 * PipeChunk + 1}}
    /\ chunk_offset = 0
    /\ cpc = "start" /\ cerr = "none"
    /\ cout = <<>> /\ creqs = <<>> /\ cresps = <<>>
    /\ src = <<>> /\ srcErr = FALSE /\ pos = 0
    /\ total_items = [lo |-> 0, hi |-> 0] /\ table = <<>> /\ idx = 0 /\ out = <<>>
    /\ bpc = "start" /\ berr = "none" /\ reads = <<>>
    /\ IdleWriter

NextPipe ==
    \/ PipeFetchOffset \/ PipeFetchChunk \/ PipeChunkStreamEnd
    \/ PipeReadTotalItems \/ PipeReadTableEntry \/ TableRead \/ PipeReadItem
    \/ BundleStreamEnd

SpecPipe == InitPipe /\ [][NextPipe]_vars

(***************************************************************************)
(* async_json::ArrayWriter.  Bytes are one-character strings; the state of *)
(* the writer is [buffer, following_item, writer].                         *)
(***************************************************************************)
\* the strings written as items
Items == {<<"a", "b", "c">>, <<"1">>, <<>>}

\* serde_json::to_writer_pretty of a string without characters to escape
ToJsonPretty(item) == <<"\"">> \o item \o <<"\"">>

\* write_open_bracket: write_all(b"[\n")
write_open_bracket(w) == w \o <<"[", "\n">>

\* write_close_bracket: write_all(b"\n]\n")
write_close_bracket(w) == w \o <<"\n", "]", "\n">>

\* write_item with the buffer never cleared
write_item_keeping_buffer(st, item) ==
    LET sep == IF st.following_item THEN <<",", "\n">> ELSE <<>>
        buf == st.buffer \o ToJsonPretty(item)
    IN  [buffer |-> buf, following_item |-> TRUE, writer |-> st.writer \o sep \o buf]

\* write_item, all its writes succeeding
write_item(st, item) ==
    LET sep == IF st.following_item THEN <<",", "\n">> ELSE <<>>
        buf == (IF st.following_item THEN <<>> ELSE st.buffer) \o ToJsonPretty(item)
    IN  [buffer |-> buf, following_item |-> TRUE, writer |-> st.writer \o sep \o buf]

WriteOpenBracket ==
    /\ wpc = "new"
    /\ \E okw \in BOOLEAN :
        IF okw THEN /\ writer' = write_open_bracket(writer) /\ wpc' = "open"
        ELSE /\ wpc' = "error" /\ UNCHANGED writer
    /\ UNCHANGED <<build, chunkVars, bundleVars, buffer, following_item, witems>>

\* the write of the separator or of the item may fail: `?` returns the error
WriteItem ==
    /\ wpc = "open"
    /\ Len(witems) < MaxWrites
    /\ \E item \in Items, failure \in {"none", "separator", "item"} :
        LET st == write_item([buffer |-> buffer, following_item |-> following_item,
                              writer |-> writer], item)
        IN  CASE failure = "none" ->
                   /\ buffer' = st.buffer /\ following_item' = st.following_item
                   /\ writer' = st.writer /\ witems' = Append(witems, item)
                   /\ UNCHANGED wpc
              [] failure = "separator" ->
                   /\ following_item
                   /\ wpc' = "error"
                   /\ UNCHANGED <<buffer, following_item, writer, witems>>
              [] OTHER ->
                   /\ buffer' = st.buffer /\ following_item' = st.following_item
                   /\ writer' = writer \o (IF following_item THEN <<",", "\n">> ELSE <<>>)
                   /\ wpc' = "error"
                   /\ UNCHANGED witems
    /\ UNCHANGED <<build, chunkVars, bundleVars>>

WriteCloseBracket ==
    /\ wpc = "open"
    /\ \E okw \in BOOLEAN :
        IF okw THEN /\ writer' = write_close_bracket(writer) /\ wpc' = "closed"
        ELSE /\ wpc' = "error" /\ UNCHANGED writer
    /\ UNCHANGED <<build, chunkVars, bundleVars, buffer, following_item, witems>>

InitWriter ==
    /\ build \in Builds
    /\ buffer = <<>> /\ following_item = FALSE /\ writer = <<>> /\ witems = <<>>
    /\ wpc = "new"
    /\ IdleChunk /\ IdleBundle

NextWriter == WriteOpenBracket \/ WriteItem \/ WriteCloseBracket

SpecWriter == InitWriter /\ [][NextWriter]_vars

(***************************************************************************)
(* Properties of the chunk reconstruction stream (SpecChunk).              *)
(***************************************************************************)
\* every answer so far was the chunk of the layout starting at the requested offset
AllFaithful == \A i \in 1..Len(cresps) : Faithful(creqs[i], cresps[i])

\* C1: for size >= 1, end_offset >= size - 1 and chunks that sum to size, each answered
\* at its own start offset, the stream yields no error and, once it has ended, the
\* concatenation of the yielded buffers is the whole content of the transaction.
ChunkReconstructionExact ==
    (txSize >= 1 /\ txOffset >= txSize - 1 /\ AllFaithful /\ cerr # "Offset")
        => /\ cpc # "error"
           /\ cpc = "done" => Concat(cout) = Content

\* C2: a zero-length chunk fetched while the cursor is below the end offset makes the
\* stream fail with ShortOrEmptyChunk, and no offset is ever requested twice.
ZeroLengthChunkIsFatal ==
    /\ \A i \in 1..Len(cresps) :
          (fetch_chunk_data(creqs[i], cresps[i]).ok /\ cresps[i].len = 0)
              => (cpc = "error" /\ cerr = "ShortOrEmptyChunk" /\ i = Len(creqs))
    /\ \A i, j \in 1..Len(creqs) : i # j => creqs[i] # creqs[j]

\* C10: when the first chunk request is answered "pending" (HTTP 202), the stream's
\* first output is the error ChunkPending, no buffer was yielded and no further
\* request was made.
PendingFirstChunkSurfaces ==
    (Len(cresps) >= 1 /\ ~cresps[1].transport /\ cresps[1].status = 202)
        => /\ cpc = "error" /\ cerr = "Pending"
           /\ cout = <<>>
           /\ Len(creqs) = 1

(***************************************************************************)
(* Properties of the bundle item stream (SpecBundle).                      *)
(***************************************************************************)
\* the length row k of the table declares, when it is below 2^64
DeclaredLength(k) == table[k].size.lo

\* the description of the item a read was made for (the rows of a bundle without a
\* fault of the framing lie where the description puts them)
DescOf(r) == bundle.items[r.row]

OtherwiseValid(d) ==
    d.variant \in 1..4 /\ d.tag_count = d.tags /\ d.form \in {"empty", "ok", "negblock"}

\* C3: when the source ends before a row's declared length has been supplied, that
\* row is not yielded as an item: the stream ends in an error at that row.
NoSilentTruncation ==
    \A i \in 1..Len(reads) :
        (table[reads[i].row].size.hi = 0
         /\ Len(src) - reads[i].start < DeclaredLength(reads[i].row))
            => (reads[i].kind = "err" /\ reads[i].err \in {"UnexpectedEof", "Io"})

\* C4: a 32-byte counter (the item count, a row's declared length) with a nonzero
\* upper half makes the stream yield the error CountOverflow, in every build.
CountOverflowIsAnError ==
    /\ (bundle.fault = "countHi" /\ bpc # "start")
          => (bpc = "error" /\ berr = "CountOverflow")
    /\ (bundle.fault = "lenHi" /\ bpc # "start" /\ (bpc = "table" => Len(table) >= 1))
          => (bpc = "error" /\ berr = "CountOverflow")

\* C5: an item that is valid but for a target or anchor presence byte outside {0, 1}
\* makes read_data_item return the error MalformedInput.
PresenceFlagMalformedIsError ==
    \A i \in 1..Len(reads) :
        (bundle.fault = "none" /\ OtherwiseValid(DescOf(reads[i]))
         /\ (DescOf(reads[i]).target \notin {0, 1} \/ DescOf(reads[i]).anchor \notin {0, 1}))
            => (reads[i].kind = "err" /\ reads[i].err = "MalformedInput")

\* C6: an item is yielded only with exactly tag_count tags, and a tag list of another
\* length (an empty one for tag_blob_length = 0 included) makes read_data_item return
\* the error MalformedInput.
TagCountMatchesOrError ==
    \A i \in 1..Len(reads) :
        LET d == DescOf(reads[i]) IN
        bundle.fault = "none"
            => /\ reads[i].kind = "ok" => Len(out[i].tags) = d.tag_count
               /\ (d.variant \in 1..4 /\ d.target \in {0, 1} /\ d.anchor \in {0, 1}
                   /\ d.form \in {"empty", "ok", "negblock"} /\ d.tag_count # d.tags)
                      => (reads[i].kind = "err" /\ reads[i].err = "MalformedInput")

\* the 2-byte variant at the start of the row a read was made for
VariantAt(r) == src[r.start + 1] + 256 * src[r.start + 2]

\* the bounded reader of the read supplied at least n bytes
Supplied(r, n) == r.limit >= n /\ Len(src) - r.start >= n

\* C7: variants 1, 2, 3, 4 give a signature and an owner key of (512,512), (64,32),
\* (65,65), (64,32) bytes, taken from the bytes that follow the variant; every other
\* variant fails with the unsupported-variant error after the 2 variant bytes.
SignatureVariantLengths ==
    \A i \in 1..Len(reads) :
        LET r == reads[i]
            v == VariantAt(r)
            lens == CASE v = 1 -> <<512, 512>>
                      [] v = 2 -> <<64, 32>>
                      [] v = 3 -> <<65, 65>>
                      [] OTHER -> <<64, 32>>
        IN  Supplied(r, 2)
              => /\ v \notin 1..4
                      => (r.kind = "err" /\ r.err = "UnsupportedSignatureType" /\ r.used = 2)
                 /\ v \in 1..4 => r.err # "UnsupportedSignatureType"
                 /\ r.kind = "ok"
                      => /\ v \in 1..4
                         /\ Len(out[i].signature) = lens[1]
                         /\ Len(out[i].owner_public_key) = lens[2]
                         /\ out[i].signature = SubSeq(src, r.start + 3, r.start + 2 + lens[1])
                         /\ out[i].owner_public_key
                              = SubSeq(src, r.start + 3 + lens[1],
                                       r.start + 2 + lens[1] + lens[2])

\* an arweave item (variant 1) has been yielded
ArweaveItemYielded ==
    \E i \in 1..Len(reads) :
        /\ reads[i].kind = "ok" /\ Supplied(reads[i], 2) /\ VariantAt(reads[i]) = 1
        /\ Len(out[i].signature) = 512

\* C8: a well-formed bundle is decoded without error; the k-th item yielded is the
\* item of the k-th row, and the stream ends after exactly total_item_count items
\* (none for a count of 0).
WellFormedYieldsAllItems ==
    WellFormed(bundle)
        => /\ bpc \notin {"error", "panic"}
           /\ Len(out) <= Len(bundle.items)
           /\ \A k \in 1..Len(out) : out[k] = ItemOf(bundle.items[k])
           /\ bpc = "done"
                => (Len(out) = Len(bundle.items) /\ total_items.lo = Len(out)
                    /\ total_items.hi = 0)

\* a well-formed bundle of MaxItems items has been decoded to its end
AllItemsYielded ==
    WellFormed(bundle) /\ bpc = "done" /\ Len(out) = MaxItems /\ MaxItems >= 2

\* what has been read and yielded so far is a fail-fast run: the items yielded are
\* those of rows 1, 2, ... in order, and only the last read may have failed
FailFastState ==
    /\ Len(reads) <= Len(out) + 1
    /\ \A i \in 1..Len(reads) : reads[i].row = i
    /\ \A i \in 1..Len(out) : reads[i].kind = "ok"
    /\ bpc = "done" => (Len(out) = Len(table) /\ ~RowsLeft /\ berr = "none")
    /\ (bpc = "error" /\ reads # <<>>)
          => (reads[Len(reads)].kind = "err" /\ Len(reads) = Len(out) + 1)
    /\ (bpc = "error") <=> (berr # "none")

ChunkFailureState ==
    srcErr =>
        /\ bpc \in {"start", "table", "items", "error"}
        /\ bpc = "error" => berr = "Io"
        /\ \A i \in 1..Len(reads) :
              reads[i].kind = "ok" => reads[i].used = reads[i].limit

\* C11: a failure of the chunk stream that the decoder runs into (in the table, in
\* an item's fixed fields or in a payload) becomes the error of the item stream: the
\* decoder's next step yields the read failure and no item, the stream never ends
\* as if the input were complete, and no yielded item was cut short by the failure.
ChunkFailureReachesConsumer ==
    /\ []ChunkFailureState
    /\ [][srcErr => (bpc' = "error" /\ berr' = "Io" /\ out' = out)]_vars

\* the chunk fetch failed with one byte of a two-byte payload received
FailedInMidPayload ==
    /\ srcErr /\ bpc = "error" /\ berr = "Io"
    /\ \E i \in 1..Len(reads) :
          /\ reads[i].err = "Io"
          /\ reads[i].used = reads[i].limit - 1
          /\ bundle.items[reads[i].row].payload = 2

(***************************************************************************)
(* Properties of the JSON array writer (SpecWriter).                       *)
(***************************************************************************)
\* the serialized items, ",\n" between each consecutive pair
RECURSIVE Separated(_)
Separated(s) ==
    IF s = <<>> THEN <<>>
    ELSE IF Len(s) = 1 THEN ToJsonPretty(s[1])
    ELSE ToJsonPretty(Head(s)) \o <<",", "\n">> \o Separated(Tail(s))

\* C12: after write_open_bracket and n >= 0 successful write_item calls the bytes
\* written are "[\n" and the n serialized items, each once, with ",\n" between
\* consecutive items only; after write_close_bracket they end with "\n]\n".
ArraySeparatorProtocol ==
    /\ wpc = "open" => writer = <<"[", "\n">> \o Separated(witems)
    /\ wpc = "closed" => writer = <<"[", "\n">> \o Separated(witems) \o <<"\n", "]", "\n">>

\* an array of three items, not all the same, was closed
ThreeItemsWritten ==
    /\ wpc = "closed" /\ Len(witems) = 3
    /\ witems[1] # witems[2]

(***************************************************************************)
(* Further properties of the bundle item stream (SpecBundle).              *)
(***************************************************************************)
\* the bytes of an item before its payload, by the layout
HeaderLength(d) ==
    2 + WireSigLen(d.variant) + WireKeyLen(d.variant)
    + (1 + 32 * d.target) + (1 + 32 * d.anchor) + 16 + Len(WireTags(d.tags, d.form))

\* C13: a well-formed item read through a bound of L bytes that the source supplies
\* in full is returned with the payload made of all the bytes of the bound after the
\* fixed fields and the tag blob: its length is L minus the length of those, and the
\* bounded reader is left at its end.
PayloadIsRestOfBound ==
    \A i \in 1..Len(out) :
        \E r \in {reads[i]} : \E d \in {bundle.items[reads[i].row]} :
            (ValidItem(d) /\ Supplied(r, r.limit))
                => /\ Len(out[i].data) = r.limit - HeaderLength(d)
                   /\ out[i].data = SubSeq(src, r.start + HeaderLength(d) + 1,
                                           r.start + r.limit)
                   /\ r.used = r.limit

\* an item with a two-byte payload was read to the end of its bound
PayloadsReturned ==
    /\ bundle.fault = "none"
    /\ \E i \in 1..Len(out) :
          /\ bundle.items[reads[i].row].payload = 2
          /\ Len(out[i].data) = 2
          /\ reads[i].used = reads[i].limit

\* C15: the bound placed on the reader of a row is exactly the row's declared
\* length (lo + 2^64 * hi): a declared length of 2^64 or more is not narrowed to its
\* low 64 bits.
BoundIsDeclaredLength ==
    \A i \in 1..Len(reads) :
        \E size \in {table[reads[i].row].size} :
            size.hi = 0 /\ reads[i].limit = size.lo

\* C14: the bytes consumed for row k never exceed its declared length; the first
\* byte read for row k+1 is at (end of table) + the sum of the declared lengths of
\* the rows before it; and no byte of row k+1 is read before the bounded reader of
\* row k is exhausted and its item yielded.
ByteAccountingAcrossRows ==
    \A i \in 1..Len(reads) :
        /\ table[i].size.hi > 0 \/ reads[i].used <= table[i].size.lo
        /\ reads[i].used > 0 =>
              /\ \A j \in 1..(i - 1) : table[j].size.hi = 0
              /\ reads[i].start
                    = 32 + 64 * Len(table) + SumSeq([j \in 1..(i - 1) |-> table[j].size.lo])
              /\ \A j \in 1..(i - 1) :
                    /\ reads[j].kind = "ok" /\ j <= Len(out)
                    /\ reads[j].used = reads[j].limit

(***************************************************************************)
(* Further properties of the chunk reconstruction stream (SpecChunk).      *)
(***************************************************************************)
\* the requests made so far, their answers and the buffers yielded
ChunkFetchOrder ==
    /\ cpc = "start" => (creqs = <<>> /\ cout = <<>>)
    /\ Len(cresps) = Len(creqs)
    /\ creqs # <<>> => creqs[1] = txOffset - txSize + 1
    /\ \A i \in 1..(Len(creqs) - 1) :
          /\ fetch_chunk_data(creqs[i], cresps[i]).ok
          /\ creqs[i + 1] = creqs[i] + cresps[i].len
    /\ Len(cout) \in {Len(creqs) - 1, Len(creqs)}
    /\ \A i \in 1..Len(cout) : cout[i] = fetch_chunk_data(creqs[i], cresps[i]).chunk
    /\ \A i \in 1..(Len(creqs) - 1) :
          cresps[i].len > 0 => UsizeLt(creqs[i], creqs[i + 1])

\* C16: the offset lookup happens once and before any chunk request; the first
\* request is at end_offset - size + 1 and each later one at the previous offset plus
\* the length of the bytes that request returned; one pull of the consumer issues at
\* most one request, answered before the next; so, chunks being non-empty, the
\* requested offsets increase strictly and the buffers are yielded in fetch order.
ChunkFetchOrdering ==
    /\ []ChunkFetchOrder
    /\ [][/\ cpc # "start" => cpc' # "start"
          /\ Len(creqs') <= Len(creqs) + 1
          /\ Len(cout') <= Len(cout) + 1
          /\ SubSeq(creqs', 1, Len(creqs)) = creqs
          /\ SubSeq(cout', 1, Len(cout)) = cout]_vars

\* two non-empty chunks were requested and yielded one after the other, and the
\* stream has ended
TwoChunksFetched ==
    /\ cpc = "done" /\ Len(cout) = 2
    /\ \A i \in 1..2 : cresps[i].len > 0

(***************************************************************************)
(* The table and the end of the item stream (SpecBundle, SpecPipe).        *)
(***************************************************************************)
\* C17: the table is read in full before any item is decoded: while the count or the
\* table is being read nothing was yielded and read_data_item was not called; the
\* first call comes with all total_items rows read and starts at the byte after the
\* table; a bundle whose table is cut short yields the error first and no item.
TableBeforeItems ==
    /\ bpc \in {"start", "table"} => (out = <<>> /\ reads = <<>>)
    /\ reads # <<>> =>
          /\ total_items.hi = 0 /\ Len(table) = total_items.lo
          /\ reads[1].start = 32 + 64 * total_items.lo
    /\ bundle.fault \in {"cutTable", "cutTableIo"} =>
          /\ out = <<>> /\ reads = <<>>
          /\ bpc \in {"start", "table", "error"}

\* the table of two rows ended inside its second row: the error came first
TruncatedTableFailed ==
    /\ bundle.fault = "cutTable" /\ Len(bundle.items) = 2
    /\ bpc = "error" /\ berr = "UnexpectedEof"
    /\ Len(table) = 1 /\ out = <<>>

CursorNeverUnderflows ==
    /\ cpc # "panic"
    /\ cpc \in {"loop", "done"} => chunk_offset >= 0

\* the end of the last item, by the description of the bundle
EndOfItems(b) == TableEnd(b) + SumSeq([i \in 1..Len(b.items) |-> Len(WireItem(b.items[i]))])

\* the item stream has ended: without an error, having consumed nothing after the
\* last row's bound, and, of the buffers received, the last one holds a consumed byte
EndedAtLastItem ==
    bpc = "done" =>
        /\ berr = "none"
        /\ pos <= EndOfItems(bundle)
        /\ pos <= 32 + 64 * Len(table)
                  + SumSeq([k \in 1..Len(table) |-> TakeLimit(table[k].size)])
        /\ cout # <<>> => Len(src) - Len(cout[Len(cout)]) < pos

\* C20: after the last table row has been decoded the item stream ends without
\* reading further: the bytes after the last item's declared length are not
\* consumed and raise no error, no chunk beyond the one holding the last item's
\* final byte was fetched, and nothing is read or fetched once the stream has ended.
NoReadPastLastItem ==
    /\ []EndedAtLastItem
    /\ [][bpc # "done"]_vars

\* the stream has ended with a stored chunk of trailing bytes never requested
TrailingChunkNotFetched ==
    /\ bpc = "done" /\ bundle.fault = "trailer" /\ Len(out) = 2
    /\ pos = EndOfItems(bundle)
    /\ cpc = "loop" /\ LoopCond(chunk_offset, txOffset)
    /\ Len(creqs) < Len(layout)
====
